---- MODULE Spec2Model ----
(***************************************************************************)
(* Job processing pipeline of the data-ingestion-resolution platform:      *)
(* worker.py (ingestion, conflict detection, auto-finalize, worker loop)   *)
(* and main.py (resolve_issue, finalize_job), over the tables of           *)
(* models.py.  main.py and services/queue.py call the Job table            *)
(* "Application" (application_id); worker.py and models.py call it "Job"   *)
(* (job_id).  The model uses one name, job, for both.                      *)
(*                                                                         *)
(* Text values are sequences of one-character strings, so that strip()     *)
(* and lower() are computed, not assumed.                                  *)
(***************************************************************************)
EXTENDS Integers, Sequences, FiniteSets, TLC

\* ------------------------------------------------------------------------
\* Bounds of the model
\* ------------------------------------------------------------------------
\* longest CSV file (data records) drawn in Init
MaxRows == 2
\* how many times the queue hands the job's message to a worker
MaxDeliveries == 2

\* ------------------------------------------------------------------------
\* Text
\* ------------------------------------------------------------------------
\* Python None (a value no text is equal to)
None == <<"None">>

\* str.lower() on one character
LowerChar(c) ==
    CASE c = "A" -> "a"
      [] c = "B" -> "b"
      [] c = "C" -> "c"
      [] c = "D" -> "d"
      [] c = "E" -> "e"
      [] c = "F" -> "f"
      [] c = "G" -> "g"
      [] c = "H" -> "h"
      [] c = "I" -> "i"
      [] c = "J" -> "j"
      [] c = "K" -> "k"
      [] c = "L" -> "l"
      [] c = "M" -> "m"
      [] c = "N" -> "n"
      [] c = "O" -> "o"
      [] c = "P" -> "p"
      [] c = "Q" -> "q"
      [] c = "R" -> "r"
      [] c = "S" -> "s"
      [] c = "T" -> "t"
      [] c = "U" -> "u"
      [] c = "V" -> "v"
      [] c = "W" -> "w"
      [] c = "X" -> "x"
      [] c = "Y" -> "y"
      [] c = "Z" -> "z"
      [] OTHER -> c

\* str.lower()
Lower(s) == [i \in 1..Len(s) |-> LowerChar(s[i])]

\* characters str.strip() removes
IsSpace(c) == c = " "

RECURSIVE LStrip(_)
LStrip(s) == IF s # <<>> /\ IsSpace(Head(s)) THEN LStrip(Tail(s)) ELSE s

RECURSIVE RStrip(_)
RStrip(s) ==
    IF s # <<>> /\ IsSpace(s[Len(s)]) THEN RStrip(SubSeq(s, 1, Len(s) - 1)) ELSE s

\* str.strip()
Strip(s) == RStrip(LStrip(s))

\* c in s
Contains(s, c) == \E i \in 1..Len(s) : s[i] = c

\* s.split(c)[-1]: the text after the last c (all of s when c is absent)
AfterLast(s, c) ==
    LET idx == {i \in 1..Len(s) : s[i] = c}
        last == IF idx = {} THEN 0 ELSE CHOOSE i \in idx : \A j \in idx : j <= i
    IN SubSeq(s, last + 1, Len(s))

\* Python truthiness of an optional text: None and "" are falsy
Truthy(s) == s # None /\ s # <<>>

\* `x or ""`
OrEmpty(s) == IF Truthy(s) THEN s ELSE <<>>

\* worker.normalize_email
normalize_email(email) ==
    IF ~Truthy(email) THEN None
    ELSE LET e == Lower(Strip(email)) IN IF e = <<>> THEN None ELSE e

\* worker.identity_signature
identity_signature(row) ==
    << Lower(Strip(OrEmpty(row.first_name))),
       Lower(Strip(OrEmpty(row.last_name))),
       Lower(Strip(OrEmpty(row.company))) >>

\* the validation errors process_job records for a normalized email
ValidationErrors(email) ==
    IF ~Truthy(email) THEN <<"missing_email">>
    ELSE IF ~Contains(email, "@") \/ ~Contains(AfterLast(email, "@"), ".")
         THEN <<"invalid_email_format">>
         ELSE <<>>

\* ------------------------------------------------------------------------
\* The uploaded file: CSV records read by csv.DictReader
\* ------------------------------------------------------------------------
EmailA == <<"a", "@", "b", ".", "c">>
EmailA2 == <<" ", "A", "@", "b", ".", "c">>
EmailD == <<"d", "@", "b", ".", "c">>
EmailNoDot == <<"a", "@", "b">>

RecA1 == [email |-> EmailA, first_name |-> <<"B", "o">>, last_name |-> <<"Z">>,
          company |-> <<"C">>]
\* same email and same identity as RecA1 after normalisation
RecA2 == [email |-> EmailA2, first_name |-> <<" ", "b", "o">>,
          last_name |-> <<"z", " ">>, company |-> <<"c">>]
\* same email as RecA1, another identity
RecA3 == [email |-> EmailA, first_name |-> <<"R", "o">>, last_name |-> <<"Z">>,
          company |-> <<"C">>]
RecD == [email |-> EmailD, first_name |-> <<"B", "o">>, last_name |-> None,
         company |-> <<>>]
RecNoDot == [email |-> EmailNoDot, first_name |-> <<"B", "o">>, last_name |-> <<"Z">>,
             company |-> <<"C">>]
RecNoEmail == [email |-> <<>>, first_name |-> <<"R", "o">>, last_name |-> <<"Z">>,
               company |-> <<"C">>]

Records == {RecA1, RecA2, RecA3, RecD, RecNoDot, RecNoEmail}

RECURSIVE SeqsUpTo(_, _)
SeqsUpTo(S, n) ==
    IF n = 0 THEN {<<>>}
    ELSE LET shorter == SeqsUpTo(S, n - 1)
         IN shorter \cup {Append(q, x) : q \in shorter, x \in S}

\* a file in which one email has conflicting identities and another has none
MixedFile == <<RecA1, RecA3, RecD>>

\* the uploaded files the model draws from
Files == SeqsUpTo(Records, MaxRows) \cup {MixedFile}

\* ------------------------------------------------------------------------
\* Enumerations (constants.py) and identifiers
\* ------------------------------------------------------------------------
JobStatus == {"PENDING", "PROCESSING", "NEEDS_REVIEW", "COMPLETED", "FAILED"}
IssueStatus == {"OPEN", "RESOLVED"}
DUPLICATE_EMAIL == "DUPLICATE_EMAIL"

\* the job under study, and another job of the same database owning one row
JobId == 1
OtherJobId == 2
OtherRowId == 1
\* an issue id no issue has
MissingIssueId == 0

\* worker processes, and request handlers serving resolve_issue calls;
\* an idle one has no state, so work goes to the first idle one
Workers == {"w1", "w2"}
Slots == {"s1", "s2"}
WorkerRank(w) == IF w = "w1" THEN 1 ELSE 2
SlotRank(s) == IF s = "s1" THEN 1 ELSE 2

\* ------------------------------------------------------------------------
\* Ingestion, as computed by the loop of process_job
\* ------------------------------------------------------------------------
\* the RawRow built for record i of the file (row_number starts at 2)
MakeRawRow(f, i, id) ==
    LET row == f[i]
        email == normalize_email(row.email)
        errors == ValidationErrors(email)
    IN [id |-> id,
        job_id |-> JobId,
        row_number |-> i + 1,
        data |-> [email |-> email, first_name |-> row.first_name,
                  last_name |-> row.last_name, company |-> row.company],
        normalized_email |-> email,
        is_valid |-> (Len(errors) = 0),
        errors |-> errors]

\* the rows flushed for a file whose first row gets id base
BuildRows(f, base) == {MakeRawRow(f, i, base + i - 1) : i \in 1..Len(f)}

\* email_to_sigs / email_to_row_ids after the loop; order is the dict's
\* insertion order, rows holds record positions (row id = base + position - 1)
RECURSIVE ScanRows(_, _, _)
ScanRows(f, i, acc) ==
    IF i > Len(f) THEN acc
    ELSE
      LET row == f[i]
          email == normalize_email(row.email)
          is_valid == Len(ValidationErrors(email)) = 0
          seen == email \in DOMAIN acc.sigs
          keys == DOMAIN acc.sigs \cup {email}
          sig == identity_signature(row)
      IN IF is_valid /\ Truthy(email)
         THEN ScanRows(f, i + 1,
                [order |-> IF seen THEN acc.order ELSE Append(acc.order, email),
                 sigs |-> [e \in keys |->
                             IF e = email
                             THEN (IF seen THEN acc.sigs[e] ELSE {}) \cup {sig}
                             ELSE acc.sigs[e]],
                 rows |-> [e \in keys |->
                             IF e = email
                             THEN (IF seen THEN acc.rows[e] ELSE {}) \cup {i}
                             ELSE acc.rows[e]]])
         ELSE ScanRows(f, i + 1, acc)

EmptyScan == [order |-> <<>>, sigs |-> <<>>, rows |-> <<>>]

Scan(f) == ScanRows(f, 1, EmptyScan)

\* mutant of ConflictEmails: counts the rows of an email, not its distinct
\* identity signatures
ConflictEmailsByRowCount(f) ==
    LET sc == Scan(f)
    IN SelectSeq(sc.order, LAMBDA e : Cardinality(sc.rows[e]) > 1)

\* the emails process_job upserts an Issue for, in iteration order
ConflictEmails(f) ==
    LET sc == Scan(f)
    IN SelectSeq(sc.order, LAMBDA e : Cardinality(sc.sigs[e]) > 1)

CountValid(f) ==
    Cardinality({i \in 1..Len(f) :
                   Len(ValidationErrors(normalize_email(f[i].email))) = 0})

\* ------------------------------------------------------------------------
\* State
\* ------------------------------------------------------------------------
VARIABLES
    csvFile,        \* the records of the file stored under the job's file_key
    job,            \* the jobs row
    rawRows,        \* raw_rows table (committed rows)
    issues,         \* issues table
    resolutions,    \* issue_resolutions table
    finalContacts,  \* final_contacts table
    nextRowId,      \* raw_rows id sequence
    nextIssueId,    \* issues id sequence
    msg,            \* the job's queue message: "queued" until deleted
    deliveries,     \* number of times the message was received
    wk,             \* per worker: position in main/process_job and its locals
    rq,             \* per request slot: a resolve_issue call in flight
    fin             \* a finalize_job call in flight

vars == <<csvFile, job, rawRows, issues, resolutions, finalContacts, nextRowId,
          nextIssueId, msg, deliveries, wk, rq, fin>>

db == <<job, rawRows, issues, resolutions, finalContacts>>

IdleWorker == [pc |-> "idle", base |-> 0, pending |-> FALSE, todo |-> <<>>,
               existing |-> 0, payload |-> {}]

IdleSlot == [pc |-> "idle", issue_id |-> 0, payload |-> <<>>, existing |-> FALSE]

\* a row of another job, present before the job under study is uploaded
OtherRow == [id |-> OtherRowId, job_id |-> OtherJobId, row_number |-> 2,
             data |-> [email |-> EmailD, first_name |-> None, last_name |-> None,
                       company |-> None],
             normalized_email |-> EmailD, is_valid |-> TRUE, errors |-> <<>>]

\* upload_job has stored the file, created the job and published its message
Uploaded(files) ==
    /\ csvFile \in files
    /\ job = [status |-> "PENDING", total_rows |-> 0, valid_rows |-> 0,
              invalid_rows |-> 0, conflict_count |-> 0, error_message |-> None]
    /\ rawRows = {OtherRow}
    /\ issues = {}
    /\ resolutions = {}
    /\ finalContacts = {}
    /\ nextRowId = OtherRowId + 1
    /\ nextIssueId = 1
    /\ msg = "queued"
    /\ deliveries = 0
    /\ wk = [w \in Workers |-> IdleWorker]
    /\ rq = [s \in Slots |-> IdleSlot]
    /\ fin = "idle"

Init == Uploaded(Files)

JobRows(rows) == {r \in rows : r.job_id = JobId}
JobIssues == {i \in issues : i.job_id = JobId}

\* mutant of OpenIssueCount: the status filter is missing
AnyIssueCount == Cardinality({i \in issues : i.job_id = JobId})

\* the count of the job's OPEN Issues (worker.py lines 90 and 217, main.py
\* line 153)
OpenIssueCount ==
    Cardinality({i \in issues : i.job_id = JobId /\ i.status = "OPEN"})

\* the text of an exception, as stored by set_job_failed
ErrorText == <<"e", "r", "r">>

\* ------------------------------------------------------------------------
\* Worker: main loop and process_job
\* ------------------------------------------------------------------------
\* set_job_failed keeps message[:5000]
ErrorLimit == 5000

Truncate(s, n) == IF Len(s) <= n THEN s ELSE SubSeq(s, 1, n)

\* the except branch of main: the session is closed (uncommitted work is
\* rolled back), the job is marked FAILED unless COMPLETED, and the message
\* is not deleted
FailedJob(j) ==
    IF j.status # "COMPLETED"
    THEN [j EXCEPT !.status = "FAILED",
                   !.error_message = Truncate(ErrorText, ErrorLimit)]
    ELSE j

\* poll_messages hands the message out; process_job starts (a COMPLETED job
\* is a no-op) and commits PROCESSING
Receive(w) ==
    /\ wk[w].pc = "idle"
    /\ \A v \in Workers : wk[v].pc = "idle" => WorkerRank(w) <= WorkerRank(v)
    /\ msg = "queued"
    /\ deliveries < MaxDeliveries
    /\ deliveries' = deliveries + 1
    /\ IF job.status = "COMPLETED"
       THEN /\ wk' = [wk EXCEPT ![w] = [IdleWorker EXCEPT !.pc = "returned"]]
            /\ job' = job
       ELSE /\ wk' = [wk EXCEPT ![w] = [IdleWorker EXCEPT !.pc = "clear"]]
            /\ job' = [job EXCEPT !.status = "PROCESSING", !.error_message = None]
    /\ UNCHANGED <<csvFile, rawRows, issues, resolutions, finalContacts, nextRowId,
                   nextIssueId, msg, rq, fin>>

\* mutant of ClearStaging: the rows of the previous pass are kept
KeepStaging(w) ==
    /\ wk[w].pc = "clear"
    /\ finalContacts' = {}
    /\ wk' = [wk EXCEPT ![w].pc = "download"]
    /\ UNCHANGED <<csvFile, job, rawRows, issues, resolutions, nextRowId,
                   nextIssueId, msg, deliveries, rq, fin>>

\* delete the job's RawRows and FinalContacts, commit
ClearStaging(w) ==
    /\ wk[w].pc = "clear"
    /\ rawRows' = rawRows \ JobRows(rawRows)
    /\ finalContacts' = {}
    /\ wk' = [wk EXCEPT ![w].pc = "download"]
    /\ UNCHANGED <<csvFile, job, issues, resolutions, nextRowId, nextIssueId, msg,
                   deliveries, rq, fin>>

\* download_bytes raises (storage fetch failure)
DownloadFails(w) ==
    /\ wk[w].pc = "download"
    /\ job' = FailedJob(job)
    /\ wk' = [wk EXCEPT ![w] = IdleWorker]
    /\ UNCHANGED <<csvFile, rawRows, issues, resolutions, finalContacts, nextRowId,
                   nextIssueId, msg, deliveries, rq, fin>>

\* download, parse, flush one RawRow per record (ids drawn, not committed)
Ingest(w) ==
    /\ wk[w].pc = "download"
    /\ nextRowId' = nextRowId + Len(csvFile)
    /\ wk' = [wk EXCEPT ![w].base = nextRowId,
                        ![w].pending = TRUE,
                        ![w].todo = ConflictEmails(csvFile),
                        ![w].pc = IF ConflictEmails(csvFile) = <<>>
                                  THEN "finish" ELSE "upsert"]
    /\ UNCHANGED <<csvFile, job, rawRows, issues, resolutions, finalContacts,
                   nextIssueId, msg, deliveries, rq, fin>>

\* the rows a worker's session sees: committed rows and its own flushed rows
VisibleRows(w) ==
    IF wk[w].pending THEN rawRows \cup BuildRows(csvFile, wk[w].base) ELSE rawRows

\* candidate_rows of the payload for an email (lines 199-206)
Candidates(w, email) ==
    LET ids == {wk[w].base + i - 1 : i \in Scan(csvFile).rows[email]}
    IN {[raw_row_id |-> r.id, row_number |-> r.row_number, data |-> r.data] :
          r \in {x \in VisibleRows(w) : x.id \in ids}}

\* candidate query and the `existing` query of upsert_duplicate_issue
UpsertRead(w) ==
    /\ wk[w].pc = "upsert"
    /\ LET email == Head(wk[w].todo)
           found == {i \in issues : i.job_id = JobId /\ i.type = DUPLICATE_EMAIL
                                    /\ i.key = email}
       IN wk' = [wk EXCEPT ![w].payload = [email |-> email,
                                           candidates |-> Candidates(w, email)],
                           ![w].existing = IF found = {} THEN 0
                                           ELSE (CHOOSE i \in found : TRUE).id,
                           ![w].pc = "upsert_write"]
    /\ UNCHANGED <<csvFile, job, rawRows, issues, resolutions, finalContacts,
                   nextRowId, nextIssueId, msg, deliveries, rq, fin>>

\* mutant of IssueKeyTaken: the table has no unique constraint
IssueKeyUnconstrained(email) == FALSE

\* uq_issue_job_type_key (models.py): would inserting an Issue with this key
\* violate the unique constraint?
IssueKeyTaken(email) ==
    \E i \in issues : i.job_id = JobId /\ i.type = DUPLICATE_EMAIL /\ i.key = email

\* mutant of UpdatedIssue: a re-detected Issue is reopened
ReopenedIssue(i, payload) == [i EXCEPT !.payload = payload, !.status = "OPEN"]

\* lines 64-69: an existing Issue gets the new payload, its status is kept
UpdatedIssue(i, payload) == [i EXCEPT !.payload = payload]

\* lines 71-77: a new Issue is OPEN
NewIssue(id, email, payload) ==
    [id |-> id, job_id |-> JobId, type |-> DUPLICATE_EMAIL, status |-> "OPEN",
     key |-> email, payload |-> payload]

\* the write and commit of upsert_duplicate_issue; the commit also makes the
\* flushed RawRows visible.  An insert that violates the unique constraint
\* raises, and main's except branch runs.
UpsertWrite(w) ==
    /\ wk[w].pc = "upsert_write"
    /\ LET email == Head(wk[w].todo)
           rest == Tail(wk[w].todo)
           next == [wk[w] EXCEPT !.todo = rest, !.pending = FALSE, !.existing = 0,
                                 !.payload = {},
                                 !.pc = IF rest = <<>> THEN "finish" ELSE "upsert"]
       IN IF wk[w].existing # 0
          THEN /\ issues' = {IF i.id = wk[w].existing
                             THEN UpdatedIssue(i, wk[w].payload) ELSE i :
                             i \in issues}
               /\ rawRows' = VisibleRows(w)
               /\ wk' = [wk EXCEPT ![w] = next]
               /\ UNCHANGED <<job, nextIssueId>>
          ELSE IF IssueKeyTaken(email)
          THEN /\ job' = FailedJob(job)
               /\ wk' = [wk EXCEPT ![w] = IdleWorker]
               /\ UNCHANGED <<issues, rawRows, nextIssueId>>
          ELSE /\ issues' = issues \cup {NewIssue(nextIssueId, email, wk[w].payload)}
               /\ nextIssueId' = nextIssueId + 1
               /\ rawRows' = VisibleRows(w)
               /\ wk' = [wk EXCEPT ![w] = next]
               /\ UNCHANGED job
    /\ UNCHANGED <<csvFile, resolutions, finalContacts, nextRowId, msg, deliveries,
                   rq, fin>>

\* lines 210-224: job counters, then NEEDS_REVIEW when an Issue is OPEN,
\* else commit and go on to auto_finalize_if_no_issues
Finish(w) ==
    /\ wk[w].pc = "finish"
    /\ LET counted == [job EXCEPT !.total_rows = Len(csvFile),
                                  !.valid_rows = CountValid(csvFile),
                                  !.invalid_rows = Len(csvFile) - CountValid(csvFile),
                                  !.conflict_count = Len(ConflictEmails(csvFile))]
       IN IF OpenIssueCount > 0
          THEN /\ job' = [counted EXCEPT !.status = "NEEDS_REVIEW"]
               /\ wk' = [wk EXCEPT ![w].pc = "returned", ![w].pending = FALSE]
          ELSE /\ job' = counted
               /\ wk' = [wk EXCEPT ![w].pc = "autofinalize", ![w].pending = FALSE]
    /\ rawRows' = VisibleRows(w)
    /\ UNCHANGED <<csvFile, issues, resolutions, finalContacts, nextRowId,
                   nextIssueId, msg, deliveries, rq, fin>>

\* rows of the job that are valid and have a normalized email
ValidRows(rows) ==
    {r \in JobRows(rows) : r.is_valid /\ Truthy(r.normalized_email)}

\* rlist[0]: the first row of a query result (rows come back in id order)
FirstRow(rlist) == CHOOSE r \in rlist : \A x \in rlist : r.id <= x.id

MakeContact(email, data) ==
    [job_id |-> JobId, email |-> email, first_name |-> data.first_name,
     last_name |-> data.last_name, company |-> data.company]

\* the contacts auto_finalize_if_no_issues adds: first row of each email
AutoContacts(rows) ==
    {MakeContact(e, FirstRow({r \in ValidRows(rows) : r.normalized_email = e}).data) :
       e \in {r.normalized_email : r \in ValidRows(rows)}}

\* uq_final_job_email (models.py): would adding the contacts `new` to the
\* stored contacts `old` violate it?
ContactClash(new, old) ==
    \E c \in new : \E d \in old : d.job_id = c.job_id /\ d.email = c.email

ContactEmailTaken(new) == ContactClash(new, finalContacts)

\* auto_finalize_if_no_issues
AutoFinalize(w) ==
    /\ wk[w].pc = "autofinalize"
    /\ IF OpenIssueCount > 0
       THEN /\ wk' = [wk EXCEPT ![w].pc = "returned"]
            /\ UNCHANGED <<job, finalContacts>>
       ELSE IF ContactEmailTaken(AutoContacts(rawRows))
       THEN /\ job' = FailedJob(job)
            /\ wk' = [wk EXCEPT ![w] = IdleWorker]
            /\ UNCHANGED finalContacts
       ELSE /\ finalContacts' = finalContacts \cup AutoContacts(rawRows)
            /\ job' = [job EXCEPT !.status = "COMPLETED"]
            /\ wk' = [wk EXCEPT ![w].pc = "returned"]
    /\ UNCHANGED <<csvFile, rawRows, issues, resolutions, nextRowId, nextIssueId,
                   msg, deliveries, rq, fin>>

\* process_job returned without raising: delete_message
Ack(w) ==
    /\ wk[w].pc = "returned"
    /\ msg' = "deleted"
    /\ wk' = [wk EXCEPT ![w] = IdleWorker]
    /\ UNCHANGED <<csvFile, job, rawRows, issues, resolutions, finalContacts,
                   nextRowId, nextIssueId, deliveries, rq, fin>>

\* delete_message raises (it runs inside the try of main): the except
\* branch marks the job FAILED unless COMPLETED and the message stays queued
AckFails(w) ==
    /\ wk[w].pc = "returned"
    /\ job' = FailedJob(job)
    /\ wk' = [wk EXCEPT ![w] = IdleWorker]
    /\ UNCHANGED <<csvFile, rawRows, issues, resolutions, finalContacts, nextRowId,
                   nextIssueId, msg, deliveries, rq, fin>>

WorkerStep(w) ==
    \/ Receive(w)
    \/ ClearStaging(w)
    \/ DownloadFails(w)
    \/ Ingest(w)
    \/ UpsertRead(w)
    \/ UpsertWrite(w)
    \/ Finish(w)
    \/ AutoFinalize(w)
    \/ Ack(w)
    \/ AckFails(w)

\* the keys of the message body publish_job sends (services/queue.py)
PublishedKeys == {"application_id", "file_key"}

\* body["job_id"] raises KeyError when the body has no such key
HasJobId(keys) == "job_id" \in keys

\* the id the except branch of main looks up: body.get("job_id", 0)
NamedJobId(keys) == IF HasJobId(keys) THEN JobId ELSE 0

\* poll_messages hands out the message publish_job sent for the job and
\* int(body["job_id"]) raises before process_job is called.  The queue
\* redelivers without limit; deliveries counts the receipts up to
\* MaxDeliveries.
ReceivePublished(w) ==
    /\ wk[w].pc = "idle"
    /\ msg = "queued"
    /\ ~HasJobId(PublishedKeys)
    /\ deliveries' = IF deliveries < MaxDeliveries THEN deliveries + 1
                     ELSE deliveries
    /\ wk' = [wk EXCEPT ![w].pc = "raised"]
    /\ UNCHANGED <<csvFile, job, rawRows, issues, resolutions, finalContacts,
                   nextRowId, nextIssueId, msg, rq, fin>>

\* the except branch of main for that message: it marks the job it finds
\* under body.get("job_id", 0), and the message is not deleted
ExceptPublished(w) ==
    /\ wk[w].pc = "raised"
    /\ job' = IF NamedJobId(PublishedKeys) = JobId THEN FailedJob(job) ELSE job
    /\ wk' = [wk EXCEPT ![w] = IdleWorker]
    /\ UNCHANGED <<csvFile, rawRows, issues, resolutions, finalContacts, nextRowId,
                   nextIssueId, msg, deliveries, rq, fin>>

\* upload_job followed by the worker loop: the worker keeps polling and
\* the queue keeps redelivering the unacknowledged message
NextUpload == \E w \in {"w1"} : ReceivePublished(w) \/ ExceptPublished(w)

SpecUpload == Init /\ [][NextUpload]_vars /\ WF_vars(NextUpload)

\* worker processes alone: a redelivered message may be taken by a second
\* worker while the first is still processing the job
NextWorkers == \E w \in Workers : WorkerStep(w)

SpecWorkers == Init /\ [][NextWorkers]_vars

\* ------------------------------------------------------------------------
\* resolve_issue (POST /issues/{issue_id}/resolve), called by the job's owner
\* ------------------------------------------------------------------------
\* an absent optional id; None and 0 are both falsy and no row has id 0
NoId == 0

\* Python truthiness of an optional integer id
TruthyId(x) == x # NoId

\* an empty dict, and an absent optional dict (a dict is a function from its
\* keys; the absent one is told apart by a key no dict has)
EmptyDict == <<>>
NoDict == [none |-> TRUE]

\* Python truthiness of an optional dict
TruthyDict(d) == d # NoDict /\ d # EmptyDict

UpdEmail == [email |-> <<" ", "D", "@", "b", ".", "c">>]
UpdName == [first_name |-> <<" ", "R", "o">>, company |-> <<>>]
UpdBadEmail == [email |-> EmailNoDot]

UpdatePool == {NoDict, EmptyDict, UpdEmail, UpdName, UpdBadEmail}

\* row ids a caller may name: none, the id of any stored row, an id no row has
RowIdArgs == {NoId} \cup {r.id : r \in rawRows} \cup {nextRowId}

Body(action, chosen_row_id, row_id, updated_data) ==
    [action |-> action, chosen_row_id |-> chosen_row_id, row_id |-> row_id,
     updated_data |-> updated_data]

Bodies ==
    {Body("choose", r, NoId, NoDict) : r \in RowIdArgs}
    \cup {Body("edit", NoId, r, u) : r \in RowIdArgs, u \in UpdatePool}
    \cup {Body("skip", NoId, r, NoDict) : r \in RowIdArgs}
    \cup {Body("merge", NoId, NoId, NoDict)}

\* db.get(RawRow, id): the set holding the row, or empty
GetRow(id) == {r \in rawRows : r.id = id}

\* the row exists and belongs to the job
OwnRow(id) == \E r \in GetRow(id) : r.job_id = JobId

Count(s, c) == Cardinality({i \in 1..Len(s) : s[i] = c})

\* worker.is_valid_email_format: exactly one "@", a non-empty local part, a
\* domain with at least one "." and no empty label, no separator character
is_valid_email_format(e) ==
    /\ Count(e, "@") = 1
    /\ \A i \in 1..Len(e) : e[i] \notin {";", ",", " "}
    /\ LET at == CHOOSE i \in 1..Len(e) : e[i] = "@"
           domain == SubSeq(e, at + 1, Len(e))
       IN /\ at > 1
          /\ Contains(domain, ".")
          /\ domain[1] # "."
          /\ domain[Len(domain)] # "."
          /\ \A i \in 1..(Len(domain) - 1) : ~(domain[i] = "." /\ domain[i + 1] = ".")

\* lines 259-266: an updated field is stored stripped, a falsy one as None
EditField(current, upd, f) ==
    IF f \in DOMAIN upd
    THEN (IF Truthy(upd[f]) THEN Strip(upd[f]) ELSE None)
    ELSE current[f]

\* lines 256-276: the row after an edit
EditedRow(row, upd) ==
    LET current_data == [f \in DOMAIN row.data |-> EditField(row.data, upd, f)]
        updated_email == current_data.email
        normalized == IF Truthy(updated_email) THEN normalize_email(updated_email)
                      ELSE None
    IN [row EXCEPT !.data = current_data,
                   !.normalized_email =
                       IF Truthy(normalized) /\ is_valid_email_format(normalized)
                       THEN normalized ELSE None,
                   !.is_valid = TRUE]

\* the resolution_json each action records
ResolutionPayload(body) ==
    CASE body.action = "skip" -> [action |-> "skip", row_id |-> body.row_id]
      [] body.action = "edit" -> [action |-> "edit", row_id |-> body.row_id,
                                  updated_data |-> body.updated_data]
      [] OTHER -> [action |-> body.action, chosen_row_id |-> body.chosen_row_id]

\* mutant of AlreadyResolved: the check is missing
ResolvedNotChecked(issue) == FALSE

\* line 220: the Issue is already RESOLVED
AlreadyResolved(issue) == issue.status = "RESOLVED"

\* lines 212-232 (skip), 212-277 (edit), 212-298 (choose), 311-312 (other):
\* the checks, and the row mutation committed before the resolution is
\* recorded.  code is the HTTP error raised, 0 when the request goes on.
ResolveCheck(issue_id, body) ==
    LET found == {i \in issues : i.id = issue_id}
        issue == CHOOSE i \in found : TRUE
        reject(code) == [code |-> code, rows |-> rawRows]
    IN IF found = {} THEN reject(404)
       ELSE IF AlreadyResolved(issue) THEN reject(409)
       ELSE IF body.action = "skip"
       THEN [code |-> 0,
             rows |-> IF TruthyId(body.row_id) /\ OwnRow(body.row_id)
                      THEN {IF r.id = body.row_id
                            THEN [r EXCEPT !.is_valid = FALSE] ELSE r : r \in rawRows}
                      ELSE rawRows]
       ELSE IF body.action = "edit"
       THEN IF ~TruthyId(body.row_id) \/ ~TruthyDict(body.updated_data)
            THEN reject(400)
            ELSE IF ~OwnRow(body.row_id) THEN reject(400)
            ELSE [code |-> 0,
                  rows |-> {IF r.id = body.row_id
                            THEN EditedRow(r, body.updated_data) ELSE r :
                            r \in rawRows}]
       ELSE IF body.action = "choose"
       THEN IF ~TruthyId(body.chosen_row_id) THEN reject(400)
            ELSE IF ~OwnRow(body.chosen_row_id) THEN reject(400)
            ELSE [code |-> 0, rows |-> rawRows]
       ELSE reject(400)

\* a resolve_issue call up to its first commit.  A rejected call returns
\* with the state as ResolveCheck left it, which is the state it found: it
\* is no step of the system.
ResolveBegin(s, issue_id, body) ==
    /\ rq[s].pc = "idle"
    /\ \A t \in Slots : rq[t].pc = "idle" => SlotRank(s) <= SlotRank(t)
    /\ ResolveCheck(issue_id, body).code = 0
    /\ rawRows' = ResolveCheck(issue_id, body).rows
    /\ rq' = [rq EXCEPT ![s] = [pc |-> "query", issue_id |-> issue_id,
                                payload |-> ResolutionPayload(body),
                                existing |-> FALSE]]
    /\ UNCHANGED <<csvFile, job, issues, resolutions, finalContacts, nextRowId,
                   nextIssueId, msg, deliveries, wk, fin>>

\* the `existing` query for the issue's IssueResolution
ResolveQuery(s) ==
    /\ rq[s].pc = "query"
    /\ rq' = [rq EXCEPT ![s].pc = "write",
                        ![s].existing = \E r \in resolutions :
                                           r.issue_id = rq[s].issue_id]
    /\ UNCHANGED <<csvFile, job, rawRows, issues, resolutions, finalContacts,
                   nextRowId, nextIssueId, msg, deliveries, wk, fin>>

\* unique issue_id of issue_resolutions (models.py)
ResolutionTaken(issue_id) == \E r \in resolutions : r.issue_id = issue_id

\* write the IssueResolution, set the Issue RESOLVED, commit.  An insert that
\* violates the unique issue_id raises: the transaction is rolled back and
\* the caller gets a server error.
ResolveWrite(s) ==
    /\ rq[s].pc = "write"
    /\ LET id == rq[s].issue_id
           resolved == {IF i.id = id THEN [i EXCEPT !.status = "RESOLVED"] ELSE i :
                          i \in issues}
       IN IF rq[s].existing
          THEN /\ resolutions' = {IF r.issue_id = id
                                  THEN [r EXCEPT !.resolution = rq[s].payload] ELSE r :
                                  r \in resolutions}
               /\ issues' = resolved
          ELSE IF ResolutionTaken(id)
          THEN UNCHANGED <<resolutions, issues>>
          ELSE /\ resolutions' = resolutions \cup
                                   {[issue_id |-> id, resolution |-> rq[s].payload]}
               /\ issues' = resolved
    /\ rq' = [rq EXCEPT ![s] = IdleSlot]
    /\ UNCHANGED <<csvFile, job, rawRows, finalContacts, nextRowId, nextIssueId,
                   msg, deliveries, wk, fin>>

\* ------------------------------------------------------------------------
\* finalize_job (POST /applications/{id}/finalize), called by the job's owner
\* ------------------------------------------------------------------------
\* mutant of CheckOutcome: the previous contacts are not cleared
CheckKeepsContacts(contacts, status) ==
    [code |-> IF OpenIssueCount > 0 THEN 409 ELSE 0,
     contacts |-> contacts, status |-> status]

\* lines 153-159 run on stored contacts and a job status: rejected (409)
\* while an Issue is OPEN; else the job's FinalContacts are deleted and the
\* deletion committed
CheckOutcome(contacts, status) ==
    IF OpenIssueCount > 0
    THEN [code |-> 409, contacts |-> contacts, status |-> status]
    ELSE [code |-> 0, contacts |-> {c \in contacts : c.job_id # JobId},
          status |-> status]

\* mutant of FinalizeCheck: the contacts are cleared before the check
FinalizeClearsFirst ==
    [code |-> IF OpenIssueCount > 0 THEN 409 ELSE 0,
     contacts |-> {c \in finalContacts : c.job_id # JobId},
     status |-> job.status]

FinalizeCheck == CheckOutcome(finalContacts, job.status)

\* a finalize_job call up to its first commit; a rejected call returns here
FinalizeBegin ==
    /\ fin = "idle"
    /\ finalContacts' = FinalizeCheck.contacts
    /\ job' = [job EXCEPT !.status = FinalizeCheck.status]
    /\ fin' = IF FinalizeCheck.code # 0 THEN "idle" ELSE "build"
    /\ UNCHANGED <<csvFile, rawRows, issues, resolutions, nextRowId,
                   nextIssueId, msg, deliveries, wk, rq>>

\* the (Issue, IssueResolution) pairs of the job (lines 162-167)
JobResolutions ==
    {p \in JobIssues \X resolutions : p[2].issue_id = p[1].id}

\* data["chosen_row_id"] raises KeyError for a resolution without that key
ChosenKeyMissing ==
    \E p \in JobResolutions : "chosen_row_id" \notin DOMAIN p[2].resolution

\* chosen_by_email (lines 168-172), as the set of (email, row id) pairs
ChosenByEmail ==
    {<<p[1].key, p[2].resolution.chosen_row_id>> : p \in JobResolutions}

\* the contacts finalize_job adds (lines 174-198)
FinalizeContacts ==
    LET emails == {r.normalized_email : r \in ValidRows(rawRows)}
        chosen(e) == {c[2] : c \in {x \in ChosenByEmail : x[1] = e}}
        chosenId(e) == CHOOSE id \in chosen(e) : TRUE
        built == {e \in emails : chosen(e) = {} \/ GetRow(chosenId(e)) # {}}
    IN {MakeContact(e,
          IF chosen(e) # {}
          THEN (CHOOSE r \in GetRow(chosenId(e)) : TRUE).data
          ELSE FirstRow({r \in ValidRows(rawRows) : r.normalized_email = e}).data) :
        e \in built}

\* lines 161-203 run on the contacts and status left by lines 153-159: build
\* the contacts, set COMPLETED, commit; a KeyError or a violated unique
\* constraint raises (server error) and nothing of this part is committed
BuildOutcome(contacts, status) ==
    IF ChosenKeyMissing \/ ContactClash(FinalizeContacts, contacts)
    THEN [code |-> 500, contacts |-> contacts, status |-> status]
    ELSE [code |-> 0, contacts |-> contacts \cup FinalizeContacts,
          status |-> "COMPLETED"]

FinalizeBuild ==
    /\ fin = "build"
    /\ fin' = "idle"
    /\ finalContacts' = BuildOutcome(finalContacts, job.status).contacts
    /\ job' = [job EXCEPT !.status = BuildOutcome(finalContacts, job.status).status]
    /\ UNCHANGED <<csvFile, rawRows, issues, resolutions, nextRowId, nextIssueId,
                   msg, deliveries, wk, rq>>

\* a whole finalize_job call that no other operation interleaves with, run
\* on stored contacts and a job status: the response code, and the contacts
\* and job status it leaves
FinalizeRun(contacts, status) ==
    IF CheckOutcome(contacts, status).code # 0
    THEN CheckOutcome(contacts, status)
    ELSE BuildOutcome(CheckOutcome(contacts, status).contacts,
                      CheckOutcome(contacts, status).status)

FinalizeOutcome == FinalizeRun(finalContacts, job.status)

\* ------------------------------------------------------------------------
\* The system
\* ------------------------------------------------------------------------
ResolveStep(s) ==
    \/ \E id \in {i.id : i \in issues} \cup {MissingIssueId} :
         \E body \in Bodies : ResolveBegin(s, id, body)
    \/ ResolveQuery(s)
    \/ ResolveWrite(s)

FinalizeStep == FinalizeBegin \/ FinalizeBuild

\* one worker process taking the deliveries one after the other, one
\* resolve_issue call at a time, and finalize_job calls, all interleaved
Next ==
    \/ \E w \in {"w1"} : WorkerStep(w)
    \/ \E s \in {"s1"} : ResolveStep(s)
    \/ FinalizeStep

Spec == Init /\ [][Next]_vars

\* one worker process and resolve_issue calls running concurrently
NextResolve ==
    \/ \E w \in {"w1"} : WorkerStep(w)
    \/ \E s \in Slots : ResolveStep(s)

SpecResolve == Init /\ [][NextResolve]_vars

\* one worker process taking the deliveries of the message one after the
\* other, and no request
NextIngest == \E w \in {"w1"} : WorkerStep(w)

SpecIngest == Init /\ [][NextIngest]_vars

\* ------------------------------------------------------------------------
\* Email handling on its own: files of two records that carry the same
\* email text under two identities, for the addresses of
\* tests/test_email_validation.py
\* ------------------------------------------------------------------------
\* "john@"
JohnAt == <<"j", "o", "h", "n", "@">>
\* "@example.com"
AtExample == <<"@", "e", "x", "a", "m", "p", "l", "e", ".", "c", "o", "m">>
\* "john@example"
JohnNoDot == <<"j", "o", "h", "n", "@", "e", "x", "a", "m", "p", "l", "e">>
\* "john@example,com"
JohnComma == <<"j", "o", "h", "n", "@", "e", "x", "a", "m", "p", "l", "e",
    ",", "c", "o", "m">>
\* "john@example.com;other@example.com"
JohnTwo == <<"j", "o", "h", "n", "@", "e", "x", "a", "m", "p", "l", "e", ".",
    "c", "o", "m", ";", "o", "t", "h", "e", "r", "@", "e", "x", "a", "m", "p",
    "l", "e", ".", "c", "o", "m">>
\* "john@example.com"
JohnPlain == <<"j", "o", "h", "n", "@", "e", "x", "a", "m", "p", "l", "e",
    ".", "c", "o", "m">>
\* "jane.doe+tag@example.co.uk"
JaneTag == <<"j", "a", "n", "e", ".", "d", "o", "e", "+", "t", "a", "g", "@",
    "e", "x", "a", "m", "p", "l", "e", ".", "c", "o", ".", "u", "k">>
\* "notanemail"
NotAnEmail == <<"n", "o", "t", "a", "n", "e", "m", "a", "i", "l">>
\* "  JOHN@Example.COM  "
JohnPadded == <<" ", " ", "J", "O", "H", "N", "@", "E", "x", "a", "m", "p",
    "l", "e", ".", "C", "O", "M", " ", " ">>
\* "user@example.com (work)"
UserWork == <<"u", "s", "e", "r", "@", "e", "x", "a", "m", "p", "l", "e", ".",
    "c", "o", "m", " ", "(", "w", "o", "r", "k", ")">>
\* "user@example.com"
UserPlain == <<"u", "s", "e", "r", "@", "e", "x", "a", "m", "p", "l", "e",
    ".", "c", "o", "m">>

\* the addresses test_is_valid_email_format_invalid lists (all but "" and
\* "notanemail", which have no "@")
ListedInvalid == {JohnAt, AtExample, JohnNoDot, JohnComma, JohnTwo}

EmailPool ==
    ListedInvalid \cup {JohnPlain, JaneTag, NotAnEmail, JohnPadded, UserWork,
                        UserPlain, <<>>, None}

EmailFile(e) ==
    << [email |-> e, first_name |-> <<"B", "o">>, last_name |-> <<"Z">>,
        company |-> <<"C">>],
       [email |-> e, first_name |-> <<"R", "o">>, last_name |-> <<"Z">>,
        company |-> <<"C">>] >>

EmailFiles == {EmailFile(e) : e \in EmailPool}

InitEmail == Uploaded(EmailFiles)

\* one worker ingesting a file of EmailFiles, deliveries one after the other
NextEmail == \E w \in {"w1"} : WorkerStep(w)

SpecEmail == InitEmail /\ [][NextEmail]_vars

\* ------------------------------------------------------------------------
\* Properties
\* ------------------------------------------------------------------------
SomeIssueOpen == \E i \in issues : i.job_id = JobId /\ i.status = "OPEN"

\* C1: a COMPLETED job has no OPEN Issue, in every reachable state
C1_CompletedHasNoOpenIssue ==
    job.status = "COMPLETED" => ~SomeIssueOpen

\* C2: no step deletes an Issue or changes its key, and no step takes a
\* RESOLVED Issue back to OPEN; a re-detection changes the payload only
C2_IssueStatusMonotonic ==
    [][\A i \in issues :
         \E j \in issues' :
            /\ j.id = i.id /\ j.job_id = i.job_id /\ j.type = i.type /\ j.key = i.key
            /\ (i.status = "RESOLVED" => j.status = "RESOLVED")]_vars

\* C2 witness: a RESOLVED Issue whose payload was overwritten by a later
\* detection pass (its candidates are rows of the second ingestion)
C2_Witness ==
    \E i \in issues :
       /\ i.status = "RESOLVED"
       /\ \E c \in i.payload.candidates : c.raw_row_id > OtherRowId + Len(csvFile)

\* C3: at most one Issue per (job, type, key)
C3_UniqueIssuePerKey ==
    \A i, j \in issues :
       (i.job_id = j.job_id /\ i.type = j.type /\ i.key = j.key) => i = j

\* C3 witness: a worker about to insert an Issue for a key that an
\* overlapping worker has inserted since this one looked
C3_Witness ==
    \E w \in Workers :
       /\ wk[w].pc = "upsert_write"
       /\ wk[w].existing = 0
       /\ \E i \in issues : i.key = Head(wk[w].todo)

\* the valid records of a file, and the normalized emails with at least two
\* distinct identity signatures among them
ValidPositions(f) ==
    {i \in 1..Len(f) : Len(ValidationErrors(normalize_email(f[i].email))) = 0}

ConflictSet(f) ==
    {e \in {normalize_email(f[i].email) : i \in ValidPositions(f)} :
       Cardinality({identity_signature(f[i]) :
                      i \in {k \in ValidPositions(f) :
                               normalize_email(f[k].email) = e}}) >= 2}

\* a worker whose process_job ran an ingestion pass and returned normally
PassReturned(w) == wk[w].pc = "returned" /\ wk[w].base # 0

\* C4: after an ingestion pass, the Issue keys are exactly the emails with
\* two or more distinct signatures among the valid records, every Issue is
\* OPEN, and conflict_count is their number
C4_IssuesAreTheConflicts ==
    \A w \in Workers :
       PassReturned(w) =>
          /\ {i.key : i \in JobIssues} = ConflictSet(csvFile)
          /\ \A i \in JobIssues : i.status = "OPEN"
          /\ job.conflict_count = Cardinality(ConflictSet(csvFile))

\* C4 witness: a pass returned on a file where one email has a conflict and
\* another valid email has none
C4_Witness ==
    \E w \in Workers :
       /\ PassReturned(w)
       /\ ConflictSet(csvFile) # {}
       /\ \E i \in ValidPositions(csvFile) :
             normalize_email(csvFile[i].email) \notin ConflictSet(csvFile)

C6_CompletedOnlyAfterIngestion ==
    [][(job.status # "COMPLETED" /\ job'.status = "COMPLETED") =>
          job.status \in {"PROCESSING", "NEEDS_REVIEW"}]_vars

\* the claim's invalid requests: an unknown action, choose without
\* chosen_row_id, edit without row_id or updated_data, or a named row that
\* is not a row of the job
InvalidBody(body) ==
    \/ body.action \notin {"choose", "edit", "skip"}
    \/ body.action = "choose" /\ ~TruthyId(body.chosen_row_id)
    \/ body.action = "edit" /\ (~TruthyId(body.row_id) \/ ~TruthyDict(body.updated_data))
    \/ TruthyId(body.chosen_row_id) /\ ~OwnRow(body.chosen_row_id)
    \/ TruthyId(body.row_id) /\ ~OwnRow(body.row_id)

\* C7: a resolve request against a RESOLVED Issue is rejected with a
\* conflict error and leaves every RawRow as it is
C7_ResolvedIsRejected ==
    \A i \in issues :
       i.status = "RESOLVED" =>
          \A body \in Bodies :
             ResolveCheck(i.id, body) = [code |-> 409, rows |-> rawRows]

\* C7 witness: a RESOLVED Issue with its IssueResolution, a valid row of the
\* job that a request could name, and a free request handler
C7_Witness ==
    /\ \E i \in issues :
          i.status = "RESOLVED" /\ \E r \in resolutions : r.issue_id = i.id
    /\ ValidRows(rawRows) # {}
    /\ \A s \in Slots : rq[s].pc = "idle"

\* the row as ingestion stored it
Untouched(r) == r = MakeRawRow(csvFile, r.row_number - 1, r.id)

\* C8: once the concurrent resolve requests have returned, the only rows
\* changed are rows named by a recorded IssueResolution: a request that did
\* not take effect changed no row
C8_ResolveSerialized ==
    (\A s \in Slots : rq[s].pc = "idle") =>
       \A r \in JobRows(rawRows) :
          ~Untouched(r) =>
             \E x \in resolutions :
                /\ "row_id" \in DOMAIN x.resolution
                /\ x.resolution.row_id = r.id

\* C9: an invalid resolve request against an OPEN Issue is rejected and
\* changes no RawRow
C9_InvalidIsRejected ==
    \A i \in issues :
       i.status = "OPEN" =>
          \A body \in Bodies :
             InvalidBody(body) =>
                /\ ResolveCheck(i.id, body).code # 0
                /\ ResolveCheck(i.id, body).rows = rawRows

\* C10: a finalize request for a job with an OPEN Issue is rejected and
\* leaves the job status and the FinalContacts as they are
C10_FinalizeRejected ==
    SomeIssueOpen =>
       FinalizeCheck = [code |-> 409, contacts |-> finalContacts,
                        status |-> job.status]

\* C10 witness: an OPEN Issue while the job has FinalContacts
C10_Witness ==
    SomeIssueOpen /\ finalContacts # {} /\ fin = "idle"

\* every Issue of the job is RESOLVED, and there is at least one
AllResolved == JobIssues # {} /\ \A i \in JobIssues : i.status = "RESOLVED"

\* C11: once every Issue of a NEEDS_REVIEW job is resolved, whatever the
\* actions recorded, a finalize request succeeds, writes the contact set
\* and leaves the job COMPLETED
C11_FinalizeAfterResolution ==
    (job.status = "NEEDS_REVIEW" /\ AllResolved /\ fin = "idle"
       /\ \A w \in Workers : wk[w].pc = "idle") =>
       /\ FinalizeOutcome.code = 0
       /\ FinalizeOutcome.status = "COMPLETED"

\* no worker run and no request is in progress
Quiet ==
    /\ fin = "idle"
    /\ \A w \in Workers : wk[w].pc = "idle"
    /\ \A s \in Slots : rq[s].pc = "idle"

\* the distinct normalized emails of the job's valid rows
ValidEmails == {r.normalized_email : r \in ValidRows(rawRows)}

\* the contacts hold exactly one contact of the job per email of `emails`
OnePerEmail(contacts, emails) ==
    /\ {c.email : c \in contacts} = emails
    /\ Cardinality(contacts) = Cardinality(emails)
    /\ \A c \in contacts : c.job_id = JobId

\* C12: a finalize request that succeeds leaves exactly one contact for
\* every distinct normalized email of the job's valid rows, and no other,
\* whatever passes, redeliveries and resolutions came before
C12_OneContactPerValidEmail ==
    (Quiet /\ FinalizeOutcome.code = 0) =>
       OnePerEmail(FinalizeOutcome.contacts, ValidEmails)

\* the stored rows a recorded choose resolution names for the email
ChosenRows(email) ==
    {r \in rawRows :
       \E p \in JobResolutions :
          /\ p[1].key = email
          /\ p[2].resolution.action = "choose"
          /\ p[2].resolution.chosen_row_id = r.id}

\* the valid row of the email that comes first in the file
FirstIngested(email) ==
    CHOOSE r \in ValidRows(rawRows) :
       /\ r.normalized_email = email
       /\ \A x \in ValidRows(rawRows) :
             x.normalized_email = email => r.row_number <= x.row_number

SameIdentity(c, r) ==
    /\ c.first_name = r.data.first_name
    /\ c.last_name = r.data.last_name
    /\ c.company = r.data.company

\* the contact carries the names of the chosen row when a choose resolution
\* names a stored row, and of the first valid row of its email otherwise
CarriesSource(c) ==
    IF ChosenRows(c.email) # {}
    THEN \E r \in ChosenRows(c.email) : SameIdentity(c, r)
    ELSE SameIdentity(c, FirstIngested(c.email))

\* C13: a contact set built by a finalize request or by the automatic
\* finalize of the worker takes each contact from the chosen row of its
\* email, and from the first valid row of the email when none is chosen
C13_ContactSource ==
    /\ (Quiet /\ FinalizeOutcome.code = 0) =>
          \A c \in FinalizeOutcome.contacts : CarriesSource(c)
    /\ \A w \in Workers :
          (wk[w].pc = "autofinalize" /\ OpenIssueCount = 0) =>
             \A c \in AutoContacts(rawRows) : CarriesSource(c)

\* C14: a second finalize request, run right after a first with nothing in
\* between, gets the same response and leaves the contacts and the job
\* status the first one left
C14_FinalizeIdempotent ==
    Quiet =>
       LET once == FinalizeOutcome
           twice == FinalizeRun(once.contacts, once.status)
       IN /\ twice.contacts = once.contacts
          /\ twice.status = once.status
          /\ twice.code = once.code

\* C14 witness: a finalize request succeeds and builds a contact set on a
\* job that already has one
C14_Witness ==
    /\ Quiet
    /\ finalContacts # {}
    /\ FinalizeOutcome.code = 0
    /\ FinalizeOutcome.contacts # {}

\* the recorded skip resolutions that name a stored row of the job
SkippedRows ==
    {r \in JobRows(rawRows) :
       \E p \in JobResolutions :
          /\ p[2].resolution.action = "skip"
          /\ p[2].resolution.row_id = r.id}

\* what resolve_issue leaves of row r after a skip of it: the row is kept
\* and only its validity flag changes, to false
SkipKeepsRow(rows, r) ==
    \E x \in rows : x.id = r.id /\ ~x.is_valid /\ x = [r EXCEPT !.is_valid = FALSE]

\* no contact of the set comes from row r: a contact for r's email carries
\* the names of another row of that email
NotBuiltFrom(contacts, r) ==
    \A c \in contacts :
       c.email = r.normalized_email =>
          \E x \in JobRows(rawRows) :
             x.id # r.id /\ x.normalized_email = c.email /\ SameIdentity(c, x)

\* C15: a skip of row r leaves r stored with its validity flag false, and a
\* later finalize request builds a contact set with no contact from r
C15_SkippedRowExcluded ==
    /\ \A i \in JobIssues : \A r \in JobRows(rawRows) :
          i.status = "OPEN" =>
             LET out == ResolveCheck(i.id, Body("skip", NoId, r.id, NoDict))
             IN out.code = 0 /\ SkipKeepsRow(out.rows, r)
    /\ (Quiet /\ ~SomeIssueOpen) =>
          \A r \in SkippedRows :
             /\ ~r.is_valid
             /\ FinalizeOutcome.code = 0
             /\ NotBuiltFrom(FinalizeOutcome.contacts, r)

\* the update sets the email to a well-formed address
SetsValidEmail(upd) ==
    /\ TruthyDict(upd)
    /\ "email" \in DOMAIN upd
    /\ Truthy(upd.email)
    /\ Truthy(normalize_email(upd.email))
    /\ is_valid_email_format(normalize_email(upd.email))

\* every field the update supplies is stored trimmed, an empty one as unset,
\* and the other fields are kept
StoredTrimmed(before, after, upd) ==
    \A f \in DOMAIN before.data :
       after.data[f] = IF f \in DOMAIN upd
                       THEN (IF upd[f] = <<>> THEN None ELSE Strip(upd[f]))
                       ELSE before.data[f]

\* the recorded edit resolutions that name a stored row of the job and set
\* its email to a well-formed address
EditedRows ==
    {r \in JobRows(rawRows) :
       \E p \in JobResolutions :
          /\ p[2].resolution.action = "edit"
          /\ p[2].resolution.row_id = r.id
          /\ SetsValidEmail(p[2].resolution.updated_data)}

\* C16: an edit of row r that sets a well-formed email e leaves r valid with
\* the normalized e as its normalized email and the supplied fields stored
\* trimmed, and a later finalize request builds a contact for that email
C16_EditedRowParticipates ==
    /\ \A i \in JobIssues : \A r \in JobRows(rawRows) : \A upd \in UpdatePool :
          (i.status = "OPEN" /\ SetsValidEmail(upd)) =>
             LET out == ResolveCheck(i.id, Body("edit", NoId, r.id, upd))
             IN /\ out.code = 0
                /\ \E x \in out.rows :
                      /\ x.id = r.id
                      /\ x.is_valid
                      /\ x.normalized_email = normalize_email(upd.email)
                      /\ StoredTrimmed(r, x, upd)
    /\ (Quiet /\ ~SomeIssueOpen) =>
          \A r \in EditedRows :
             /\ FinalizeOutcome.code = 0
             /\ \E c \in FinalizeOutcome.contacts : c.email = r.normalized_email

\* C17: the counters of a job always satisfy total = valid + invalid, and
\* at the step in which an ingestion pass returns normally total_rows is the
\* number of records of the file and the number of RawRows stored for the
\* job
C17_CountersConsistent ==
    [][/\ job'.total_rows = job'.valid_rows + job'.invalid_rows
       /\ \A w \in Workers :
             (wk[w].pc # "returned" /\ wk'[w].pc = "returned" /\ wk'[w].base # 0) =>
                /\ job'.total_rows = Len(csvFile)
                /\ Cardinality(JobRows(rawRows')) = Len(csvFile)]_vars

\* what one run of process_job on the file stores, from the initial state:
\* the rows, the payload of the Issue of a conflicting email, the counters
OnceRows == BuildRows(csvFile, OtherRowId + 1)

OncePayload(email) ==
    [email |-> email,
     candidates |->
        {[raw_row_id |-> r.id, row_number |-> r.row_number, data |-> r.data] :
           r \in {x \in OnceRows : x.normalized_email = email /\ x.is_valid}}]

OnceCounters ==
    [total_rows |-> Len(csvFile),
     valid_rows |-> Cardinality(ValidPositions(csvFile)),
     invalid_rows |-> Len(csvFile) - Cardinality(ValidPositions(csvFile)),
     conflict_count |-> Cardinality(ConflictSet(csvFile))]

JobCounters ==
    [total_rows |-> job.total_rows, valid_rows |-> job.valid_rows,
     invalid_rows |-> job.invalid_rows, conflict_count |-> job.conflict_count]

\* a row, and an Issue payload, without the row ids the database assigned
RowNoId(r) ==
    [row_number |-> r.row_number, data |-> r.data,
     normalized_email |-> r.normalized_email, is_valid |-> r.is_valid,
     errors |-> r.errors]

PayloadNoIds(p) ==
    [email |-> p.email,
     candidates |-> {[row_number |-> c.row_number, data |-> c.data] :
                       c \in p.candidates}]

\* C18 as stated: when a pass has returned, also a second one for the same
\* job and file, the RawRows, the Issue payloads and the counters are those
\* one run leaves
C18_IngestionIdempotentStrict ==
    \A w \in Workers :
       PassReturned(w) =>
          /\ JobRows(rawRows) = OnceRows
          /\ \A i \in JobIssues : i.payload = OncePayload(i.key)
          /\ JobCounters = OnceCounters

\* C18 amended: the same up to the ids of the rows, which every pass draws
\* anew: as many rows with the same sequence numbers, fields, emails,
\* validity and errors, the same Issue keys and payloads up to the
\* candidates' row ids, and the same counters
C18_IngestionIdempotent ==
    \A w \in Workers :
       PassReturned(w) =>
          /\ Cardinality(JobRows(rawRows)) = Cardinality(OnceRows)
          /\ {RowNoId(r) : r \in JobRows(rawRows)} = {RowNoId(r) : r \in OnceRows}
          /\ {i.key : i \in JobIssues} = ConflictSet(csvFile)
          /\ \A i \in JobIssues :
                /\ PayloadNoIds(i.payload) = PayloadNoIds(OncePayload(i.key))
                /\ Cardinality(i.payload.candidates) =
                      Cardinality(OncePayload(i.key).candidates)
          /\ JobCounters = OnceCounters

\* C18 witness: a second pass over a file with a conflict has returned,
\* after a first pass that stored its rows
C18_Witness ==
    \E w \in Workers :
       /\ PassReturned(w)
       /\ wk[w].base > OtherRowId + 1
       /\ JobIssues # {}
       /\ job.status = "NEEDS_REVIEW"

\* C19: once the job is COMPLETED it stays COMPLETED, and no step of a
\* worker run deletes or rebuilds its RawRows or its FinalContacts
C19_CompletedIsTerminal ==
    [][job.status = "COMPLETED" =>
          /\ job'.status = "COMPLETED"
          /\ wk' # wk =>
                /\ JobRows(rawRows') = JobRows(rawRows)
                /\ finalContacts' = finalContacts]_vars

\* the handling of the message by worker w raises in this step: the worker
\* is back at polling and has not deleted the message
Raised(w) == wk[w].pc # "idle" /\ wk'[w].pc = "idle" /\ ~Ack(w)

\* C20: the message is deleted only by a worker whose process_job has
\* returned, and whenever the handling raises the job is marked FAILED with
\* an error message of at most 5000 characters and the message stays queued
C20_AckOnlyAfterSuccess ==
    [][/\ (msg # "deleted" /\ msg' = "deleted") =>
             \E w \in Workers : wk[w].pc = "returned"
       /\ \A w \in Workers :
             Raised(w) =>
                /\ job'.status = "FAILED"
                /\ job'.error_message # None
                /\ Len(job'.error_message) <= ErrorLimit
                /\ msg' = "queued"]_vars

\* C21: a submitted job is eventually processed: with the worker polling
\* and the queue redelivering, the job leaves PENDING and reaches
\* NEEDS_REVIEW or COMPLETED
C21_EventuallyProcessed ==
    <>(job.status \in {"NEEDS_REVIEW", "COMPLETED"})

\* a step of a worker (main, process_job and what they call)
IsWorkerStep == wk' # wk

\* C22: a step of an ingestion pass, also of a reprocessing, deletes no
\* Issue and no IssueResolution, changes no Issue's status or key and no
\* IssueResolution's parameters, and leaves the rows of other jobs alone;
\* it changes only the job's RawRows and FinalContacts, Issue payloads,
\* and adds Issues
C22_IngestionKeepsDecisions ==
    [][IsWorkerStep =>
         /\ \A i \in issues :
               \E j \in issues' :
                  /\ j.id = i.id /\ j.job_id = i.job_id /\ j.type = i.type
                  /\ j.key = i.key /\ j.status = i.status
         /\ resolutions' = resolutions
         /\ rawRows' \ JobRows(rawRows') = rawRows \ JobRows(rawRows)]_vars

\* C22 witness: a reprocessing pass has returned on a job that has a
\* RESOLVED Issue with its IssueResolution, after replacing the job's rows
\* and overwriting the Issue's payload
C22_Witness ==
    /\ wk["w1"].pc = "returned"
    /\ wk["w1"].base > OtherRowId + 1
    /\ \E i \in JobIssues :
          /\ i.status = "RESOLVED"
          /\ \E r \in resolutions : r.issue_id = i.id
          /\ \A c \in i.payload.candidates : c.raw_row_id >= wk["w1"].base

\* C23: the row numbers of the job's RawRows are pairwise distinct and each
\* row is the record of the file at its row number (the first record has
\* row number 2), in every reachable state, also when two process_job runs
\* of the job overlap
C23_RowNumbersFollowFile ==
    /\ \A r, s \in JobRows(rawRows) : r.row_number = s.row_number => r = s
    /\ \A r \in JobRows(rawRows) :
          /\ r.row_number \in 2..(Len(csvFile) + 1)
          /\ r = MakeRawRow(csvFile, r.row_number - 1, r.id)

\* the failure codes the validation rule gives a normalized email
RuleErrors(email) ==
    IF ~Truthy(email) THEN <<"missing_email">>
    ELSE IF ~is_valid_email_format(email) THEN <<"invalid_email_format">>
    ELSE <<>>

\* C24: a row is valid exactly when it has no failure code; the code is
\* missing_email for an empty normalized email and invalid_email_format
\* for an email that is not local@domain with one "@", a non-empty local
\* part, a dotted domain without empty label and no separator; the five
\* listed addresses are invalid for is_valid_email_format and a row that
\* carries one of them is invalid
C24_ValidityRule ==
    /\ \A r \in JobRows(rawRows) :
          /\ r.is_valid <=> (r.errors = <<>>)
          /\ r.errors = RuleErrors(r.normalized_email)
          /\ csvFile[r.row_number - 1].email \in ListedInvalid => ~r.is_valid
    /\ \A e \in ListedInvalid : ~is_valid_email_format(e)

\* the email text of the record a row was built from
SourceEmail(r) == csvFile[r.row_number - 1].email

\* C25: the normalized email of an ingested row is its record's email
\* trimmed, without a trailing parenthetical annotation and lowercased:
\* "user@example.com (work)" gives "user@example.com", the empty text and
\* an absent value give no email, and normalizing again changes nothing
C25_NormalizeEmail ==
    \A r \in JobRows(rawRows) :
       /\ SourceEmail(r) = UserWork => r.normalized_email = UserPlain
       /\ SourceEmail(r) \in {<<>>, None} => r.normalized_email = None
       /\ r.normalized_email # None =>
             /\ Strip(r.normalized_email) = r.normalized_email
             /\ Lower(r.normalized_email) = r.normalized_email
       /\ normalize_email(r.normalized_email) = r.normalized_email

\* C26: whenever the job is COMPLETED and no run or request is in progress,
\* its FinalContacts hold exactly one contact per distinct normalized email
\* of its currently valid RawRows: no failed or repeated finalize request
\* and no redelivery leaves a COMPLETED job with a missing or emptied
\* contact set
C26_CompletedHasContacts ==
    (job.status = "COMPLETED" /\ Quiet) => OnePerEmail(finalContacts, ValidEmails)

\* the row id an IssueResolution records
RecordedRowId(resolution) ==
    IF resolution.action \in {"edit", "skip"} THEN resolution.row_id
    ELSE resolution.chosen_row_id

\* C27: the row id recorded in an IssueResolution names a stored RawRow of
\* the Issue's job and, for a choose, a row whose normalized email is the
\* Issue's key, in every reachable state, also after the job was
\* reprocessed on a redelivery
C27_ResolutionRowExists ==
    \A p \in JobResolutions :
       \E r \in rawRows :
          /\ r.id = RecordedRowId(p[2].resolution)
          /\ r.job_id = p[1].job_id
          /\ p[2].resolution.action = "choose" => r.normalized_email = p[1].key

====
